---------------------------- MODULE Spec2Model ----------------------------
(***************************************************************************)
(* Resilience execution core of the Stacksusu frontend and deploy script:  *)
(* the circuit breaker of utils/retry.ts (createCircuitBreaker) and the    *)
(* retry loops of utils/retry.ts, utils/delay.ts and the deploy script.    *)
(***************************************************************************)
EXTENDS Integers, Sequences, FiniteSets, TLC

(***************************************************************************)
(* Bounds of the model.                                                    *)
(***************************************************************************)
\* execute() calls that reach the wrapped operation, per behaviour
MaxCalls == 3
\* clock advances per behaviour
MaxTicks == 3
\* operations admitted by execute() and not yet settled
MaxPending == 2

(***************************************************************************)
(* Circuit breaker: createCircuitBreaker of utils/retry.ts.                *)
(***************************************************************************)
VARIABLES
    config,       \* the breaker's options, fixed at construction
    stateData,    \* {state, failures, lastFailure, successes}
    now,          \* Date.now()
    ticks,        \* how many times the clock has advanced
    pending,      \* operations awaited by execute() and not yet settled
    invocations,  \* how many times a wrapped operation has been invoked
    event,        \* what the last step was
    hist,         \* outcomes of the settled operations, oldest first
    overlapped,   \* two operations have been in flight at the same time
    wasReset      \* reset() has been called from outside

breakerVars == <<config, stateData, now, ticks, pending, invocations, event,
                 hist, overlapped, wasReset>>

\* one call of a retry function (see the retry loops below)
VARIABLES
    variant,      \* "retry.ts", "delay.ts" or "deploy"
    options,      \* the options of the call, defaults filled in
    attempt,      \* the loop variable
    pc,           \* "idle", "awaiting" (fn), "sleeping", "returned", "thrown"
    lastError,    \* the local lastError
    fnLog,        \* what each invocation of fn settled with, oldest first
    invoked,      \* how many times fn has been invoked
    onRetryLog,   \* the <<error, attempt>> arguments of each onRetry call
    delays,       \* the delays waited, oldest first
    outcome,      \* what the call returned or threw
    trace         \* the events of the call, in the order they happen

retryVars == <<variant, options, attempt, pc, lastError, fnLog, invoked,
               onRetryLog, delays, outcome, trace>>

\* one call of a concurrency pool (see the pools below)
VARIABLES
    poolFn,       \* "mapWithConcurrency" or "concurrent"
    concurrency,  \* the concurrency argument
    nItems,       \* items.length, tasks.length
    status,       \* per item: "queued", "scheduled", "running", "resolved",
                  \* "rejected"
    executing,    \* the executing set, as the items whose promise it holds
    currentIndex, \* how many items have been taken
    results,      \* the results array
    executors,    \* the async loops of the call: what each one awaits
    poolOutcome,  \* "idle", "pending", "resolved" or "rejected"
    microtasks,   \* the queued .then(() => fn(item, index)) reactions
    started       \* the items in the order their fn calls began

poolVars == <<poolFn, concurrency, nItems, status, executing, currentIndex,
              results, executors, poolOutcome, microtasks, started>>

\* one call of withTimeout or raceWithTimeout (see the deadline race below)
VARIABLES
    timeoutFn,    \* "withTimeout" or "raceWithTimeout"
    ms,           \* the timeout argument
    clock,        \* the time since the call
    opState,      \* the operation's promise: "pending", "fulfilled",
                  \* "rejected"
    opResult,     \* the operation's value or error ("none": not yet)
    opSettledAt,  \* when the operation settled (-1: not yet)
    timer,        \* "none", "armed", "fired" or "cleared"
    raceOutcome   \* how the returned promise settled, and when

timeoutVars == <<timeoutFn, ms, clock, opState, opResult, opSettledAt, timer,
                 raceOutcome>>

\* one call of retryPool (see the pooled retries below)
VARIABLES
    rpOptions,    \* the options: maxRetries (limit), isRetryable
    nTasks,       \* tasks.length
    tasks,        \* per task: where its retry() call stands
    wrappers,     \* per task: the promise of its tasks.map callback
    rpResults,    \* the results array
    rpOutcome     \* "idle", "pending", "resolved" or "rejected"

rpVars == <<rpOptions, nTasks, tasks, wrappers, rpResults, rpOutcome>>

\* what a caller of the breaker and of withTimeout has caught so far
VARIABLES
    caught        \* the failures: what raised the error, and the error

errVars == <<caught>>

\* the option values the model constructs breakers with
FailureThresholds == {1, 2, 3}
HalfOpenTimes == {2, 1000}
SuccessThresholds == {1, 2}

Configs == [failureThreshold : FailureThresholds,
            halfOpenTime : HalfOpenTimes,
            successThreshold : SuccessThresholds]

\* the initial stateData object
InitialStateData ==
    [state |-> "closed", failures |-> 0, lastFailure |-> 0, successes |-> 0]

\* reset() that only closes
resetKeepsCounters(sd) == [sd EXCEPT !.state = "closed"]
\* reset(): back to closed with every counter cleared
reset(sd) ==
    [state |-> "closed", failures |-> 0, successes |-> 0, lastFailure |-> 0]

\* getState() without the wait: open turns half-open on any access
getStateNoWait(sd, cfg, t) ==
    IF sd.state = "open" THEN [sd EXCEPT !.state = "half-open"] ELSE sd

\* getState() comparing with > instead of >=
getStateLate(sd, cfg, t) ==
    IF sd.state = "open" /\ t - sd.lastFailure > cfg.halfOpenTime
    THEN [sd EXCEPT !.state = "half-open"]
    ELSE sd

\* getState(): the open -> half-open check, made on access; yields the new
\* stateData (the value returned is its state field)
getState(sd, cfg, t) ==
    IF sd.state = "open" /\ t - sd.lastFailure >= cfg.halfOpenTime
    THEN [sd EXCEPT !.state = "half-open"]
    ELSE sd

\* onSuccess() comparing with > instead of >=
onSuccessLate(sd, cfg) ==
    IF sd.state = "half-open"
    THEN LET counted == [sd EXCEPT !.successes = @ + 1]
         IN  IF counted.successes > cfg.successThreshold
             THEN reset(counted)
             ELSE counted
    ELSE sd

\* onSuccess() without its state check
onSuccessAnyState(sd, cfg) ==
    LET counted == [sd EXCEPT !.successes = @ + 1]
    IN  IF counted.successes >= cfg.successThreshold
        THEN reset(counted)
        ELSE counted

\* onSuccess(): counts only in half-open, closes at successThreshold
onSuccess(sd, cfg) ==
    IF sd.state = "half-open"
    THEN LET counted == [sd EXCEPT !.successes = @ + 1]
         IN  IF counted.successes >= cfg.successThreshold
             THEN reset(counted)
             ELSE counted
    ELSE sd

\* onFailure() comparing with > instead of >=
onFailureLate(sd, cfg, t) ==
    LET counted == [sd EXCEPT !.failures = @ + 1, !.lastFailure = t]
        opened  == IF counted.state = "closed"
                      /\ counted.failures > cfg.failureThreshold
                   THEN [counted EXCEPT !.state = "open"]
                   ELSE counted
    IN  IF opened.state = "half-open"
        THEN [opened EXCEPT !.state = "open"]
        ELSE opened

\* onFailure() without the half-open branch
onFailureNoReopen(sd, cfg, t) ==
    LET counted == [sd EXCEPT !.failures = @ + 1, !.lastFailure = t]
    IN  IF counted.state = "closed"
           /\ counted.failures >= cfg.failureThreshold
        THEN [counted EXCEPT !.state = "open"]
        ELSE counted

\* onFailure(): counts the failure, stamps lastFailure, opens from closed at
\* failureThreshold and from half-open always
onFailure(sd, cfg, t) ==
    LET counted == [sd EXCEPT !.failures = @ + 1, !.lastFailure = t]
        opened  == IF counted.state = "closed"
                      /\ counted.failures >= cfg.failureThreshold
                   THEN [counted EXCEPT !.state = "open"]
                   ELSE counted
    IN  IF opened.state = "half-open"
        THEN [opened EXCEPT !.state = "open"]
        ELSE opened

\* whether execute() throws 'Circuit breaker is open' for the state it read
rejects(currentState) == currentState = "open"

BreakerInit ==
    /\ config \in Configs
    /\ stateData = InitialStateData
    /\ now = 0
    /\ ticks = 0
    /\ pending = 0
    /\ invocations = 0
    /\ event = "created"
    /\ hist = <<>>
    /\ overlapped = FALSE
    /\ wasReset = FALSE

\* time passes; nothing of the breaker runs
Tick ==
    /\ ticks < MaxTicks
    /\ \E d \in {1, config.halfOpenTime - 1, config.halfOpenTime} :
          now' = now + d
    /\ ticks' = ticks + 1
    /\ event' = "tick"
    /\ UNCHANGED <<config, stateData, pending, invocations, hist,
                   overlapped, wasReset>>
    /\ UNCHANGED <<retryVars, poolVars, timeoutVars, rpVars,
                   errVars>>

\* a caller reads getState()
GetState ==
    /\ stateData' = getState(stateData, config, now)
    /\ event' = "getState"
    /\ UNCHANGED <<config, now, ticks, pending, invocations, hist,
                   overlapped, wasReset>>
    /\ UNCHANGED <<retryVars, poolVars, timeoutVars, rpVars,
                   errVars>>

\* execute(fn) up to its await: the state check, then either the throw or
\* the invocation of fn
Execute ==
    LET checked == getState(stateData, config, now)
    IN  /\ stateData' = checked
        /\ IF rejects(checked.state)
           THEN /\ event' = "rejected"
                /\ UNCHANGED <<pending, invocations, overlapped>>
           ELSE /\ invocations < MaxCalls
                /\ pending < MaxPending
                /\ event' = "invoked"
                /\ invocations' = invocations + 1
                /\ pending' = pending + 1
                /\ overlapped' = (overlapped \/ pending >= 1)
        /\ UNCHANGED <<config, now, ticks, hist, wasReset>>
        /\ UNCHANGED <<retryVars, poolVars, timeoutVars, rpVars,
                   errVars>>

\* execute(fn) after its await, fn having resolved
ExecuteResolved ==
    /\ pending > 0
    /\ pending' = pending - 1
    /\ stateData' = onSuccess(stateData, config)
    /\ event' = "success"
    /\ hist' = Append(hist, "S")
    /\ UNCHANGED <<config, now, ticks, invocations, overlapped, wasReset>>
    /\ UNCHANGED <<retryVars, poolVars, timeoutVars, rpVars,
                   errVars>>

\* execute(fn) after its await, fn having rejected
ExecuteRejected ==
    /\ pending > 0
    /\ pending' = pending - 1
    /\ stateData' = onFailure(stateData, config, now)
    /\ event' = "failure"
    /\ hist' = Append(hist, "F")
    /\ UNCHANGED <<config, now, ticks, invocations, overlapped, wasReset>>
    /\ UNCHANGED <<retryVars, poolVars, timeoutVars, rpVars,
                   errVars>>

\* a caller calls reset()
Reset ==
    /\ stateData' = reset(stateData)
    /\ event' = "reset"
    /\ wasReset' = TRUE
    /\ UNCHANGED <<config, now, ticks, pending, invocations, hist,
                   overlapped>>
    /\ UNCHANGED <<retryVars, poolVars, timeoutVars, rpVars,
                   errVars>>

(***************************************************************************)
(* Retry loops: retry() of utils/retry.ts, retry() of utils/delay.ts and   *)
(* retry() of the deploy script's promise utilities.  One call is          *)
(* modelled; `variant` says which of the three functions was called.       *)
(***************************************************************************)

\* the largest attempt limit (maxRetries, maxAttempts) a call is given
MaxLimit == 3
\* Math.random() yields k / RandomSteps for k in 0 .. RandomSteps - 1
RandomSteps == 4

Variants == {"retry.ts", "delay.ts", "deploy"}
\* the error values an operation can throw, and the values it can yield
Errors == {"E1", "E2", "E3"}
Values == {"V1", "V2"}
\* the isRetryable / isRetriable predicates, as the set they accept
RetryableSets == {Errors, {"E1", "E2"}}
\* rationals are pairs <<numerator, denominator>>
Policies ==
    { [initialDelay |-> 1000, maxDelay |-> 30000,
       backoffMultiplier |-> <<2, 1>>, jitter |-> <<1, 10>>],
      [initialDelay |-> 100, maxDelay |-> 30000,
       backoffMultiplier |-> <<2, 1>>, jitter |-> <<0, 1>>],
      [initialDelay |-> 100, maxDelay |-> 150,
       backoffMultiplier |-> <<3, 2>>, jitter |-> <<1, 5>>],
      [initialDelay |-> 50, maxDelay |-> 30000,
       backoffMultiplier |-> <<1, 2>>, jitter |-> <<0, 1>>] }

\* base ^ exp
RECURSIVE Pow(_, _)
Pow(base, exp) == IF exp = 0 THEN 1 ELSE base * Pow(base, exp - 1)

Min(a, b) == IF a <= b THEN a ELSE b
Max(a, b) == IF a >= b THEN a ELSE b

\* Math.round of the rational num / den (den > 0): halves round up
Round(num, den) == (2 * num + den) \div (2 * den)

\* calculateDelay() raising the multiplier to attempt + 1
calculateDelayNextAttempt(a, cfg, k) ==
    LET mn == cfg.backoffMultiplier[1]
        md == cfg.backoffMultiplier[2]
        expNum == cfg.initialDelay * Pow(mn, a + 1)
        expDen == Pow(md, a + 1)
        capped == IF expNum <= cfg.maxDelay * expDen
                  THEN <<expNum, expDen>>
                  ELSE <<cfg.maxDelay, 1>>
        jn == cfg.jitter[1]
        jd == cfg.jitter[2]
        num == capped[1] * (RandomSteps * jd + (2 * k - RandomSteps) * jn)
        den == capped[2] * RandomSteps * jd
    IN  Max(0, Round(num, den))

\* calculateDelay(attempt, config) of utils/retry.ts, with Math.random()
\* having returned k / RandomSteps
calculateDelay(a, cfg, k) ==
    LET mn == cfg.backoffMultiplier[1]
        md == cfg.backoffMultiplier[2]
        \* exponentialDelay = expNum / expDen
        expNum == cfg.initialDelay * Pow(mn, a)
        expDen == Pow(md, a)
        capped == IF expNum <= cfg.maxDelay * expDen
                  THEN <<expNum, expDen>>
                  ELSE <<cfg.maxDelay, 1>>
        jn == cfg.jitter[1]
        jd == cfg.jitter[2]
        \* cappedDelay + (random - 0.5) * 2 * cappedDelay * jitter
        num == capped[1] * (RandomSteps * jd + (2 * k - RandomSteps) * jn)
        den == capped[2] * RandomSteps * jd
    IN  Max(0, Round(num, den))

\* delay(delayMs) of utils/delay.ts waits the configured delay
delayTsDelay(cfg) == cfg.initialDelay

\* the deploy script: Math.min(baseDelay * Math.pow(2, attempt - 1), maxDelay)
deployDelay(a, cfg) == Min(cfg.initialDelay * Pow(2, a - 1), cfg.maxDelay)

\* the first value of the loop variable
firstAttempt(v) == IF v = "retry.ts" THEN 0 ELSE 1

\* the loop condition of utils/retry.ts with < instead of <=
retryTsLoopsShort(a, opts) == a < opts.limit
\* the loop condition of utils/retry.ts: attempt <= config.maxRetries
retryTsLoops(a, opts) == a <= opts.limit
\* the loop condition of utils/delay.ts: attempt <= maxAttempts
delayTsLoops(a, opts) == a <= opts.limit
\* the loop condition of the deploy script: attempt <= maxRetries
deployLoops(a, opts) == a <= opts.limit

loops(v, a, opts) ==
    CASE v = "retry.ts" -> retryTsLoops(a, opts)
      [] v = "delay.ts" -> delayTsLoops(a, opts)
      [] v = "deploy"   -> deployLoops(a, opts)

\* utils/retry.ts: the catch block throws when
\* attempt === config.maxRetries || !config.isRetryable(error)
retryTsGivesUp(a, opts, e) == a = opts.limit \/ e \notin opts.retryable
\* utils/delay.ts without the isRetriable check
delayTsRetriesAlways(a, opts, e) == a < opts.limit
\* utils/delay.ts: retries when attempt < maxAttempts && isRetriable(error)
delayTsRetries(a, opts, e) == a < opts.limit /\ e \in opts.retryable
\* the deploy script waiting after the last attempt as well
deployRetriesAfterLast(a, opts) == a <= opts.limit
\* the deploy script: waits when attempt < maxRetries
deployRetries(a, opts) == a < opts.limit

\* whether the catch block goes on to onRetry and the delay
retries(v, a, opts, e) ==
    CASE v = "retry.ts" -> ~retryTsGivesUp(a, opts, e)
      [] v = "delay.ts" -> delayTsRetries(a, opts, e)
      [] v = "deploy"   -> deployRetries(a, opts)

\* onRetry handed the loop variable as it is
onRetryAttemptZeroBased(v, a) == a
\* the attempt number handed to onRetry
onRetryAttempt(v, a) == IF v = "retry.ts" THEN a + 1 ELSE a

\* the delay the catch block waits, Math.random() having returned
\* k / RandomSteps
backoff(v, a, opts, k) ==
    CASE v = "retry.ts" -> calculateDelay(a, opts.policy, k)
      [] v = "delay.ts" -> delayTsDelay(opts.policy)
      [] v = "deploy"   -> deployDelay(a, opts.policy)

\* the catch block keeping the first error instead of the last
recordFirstError(last, error) == IF last = "undefined" THEN error ELSE last
\* the catch block's lastError = error
recordError(last, error) == error

\* what the catch block does when it retries: the failure is caught,
\* onRetry is called, then the delay starts
catchEvents == <<"fail", "onRetry", "sleep">>

RetryIdle ==
    /\ attempt = 0
    /\ pc = "idle"
    /\ lastError = "undefined"
    /\ fnLog = <<>>
    /\ invoked = 0
    /\ onRetryLog = <<>>
    /\ delays = <<>>
    /\ outcome = [kind |-> "none", value |-> "undefined"]
    /\ trace = <<>>

\* the loop header: invoke fn when the condition holds, else leave the loop
\* and throw lastError (a is the loop variable's value, last is lastError,
\* tr the events so far)
LoopHead(a, last, tr) ==
    /\ attempt' = a
    /\ lastError' = last
    /\ IF loops(variant, a, options)
       THEN /\ pc' = "awaiting"
            /\ invoked' = invoked + 1
            /\ outcome' = outcome
            /\ trace' = Append(tr, "invoke")
       ELSE /\ pc' = "thrown"
            /\ invoked' = invoked
            /\ outcome' = [kind |-> "thrown", value |-> last]
            /\ trace' = Append(tr, "throw")

\* retry(fn, options) is called
RetryCall ==
    /\ pc = "idle"
    /\ LoopHead(firstAttempt(variant), lastError, trace)
    /\ UNCHANGED <<variant, options, fnLog, onRetryLog, delays>>
    /\ UNCHANGED <<breakerVars, poolVars, timeoutVars, rpVars,
                   errVars>>

\* fn resolves and the loop waits a delay before going on
FnResolvesThenWaits ==
    /\ pc = "awaiting"
    /\ \E v \in Values :
          /\ fnLog' = Append(fnLog, v)
          /\ outcome' = [kind |-> "returned", value |-> v]
    /\ delays' = Append(delays, backoff(variant, attempt, options, 0))
    /\ pc' = "sleeping"
    /\ trace' = trace \o <<"ok", "sleep">>
    /\ UNCHANGED <<variant, options, attempt, lastError, invoked, onRetryLog>>
    /\ UNCHANGED <<breakerVars, poolVars, timeoutVars, rpVars,
                   errVars>>

\* fn resolves: return await fn()
FnResolves ==
    /\ pc = "awaiting"
    /\ \E v \in Values :
          /\ fnLog' = Append(fnLog, v)
          /\ outcome' = [kind |-> "returned", value |-> v]
    /\ pc' = "returned"
    /\ trace' = trace \o <<"ok", "return">>
    /\ UNCHANGED <<variant, options, attempt, lastError, invoked,
                   onRetryLog, delays>>
    /\ UNCHANGED <<breakerVars, poolVars, timeoutVars, rpVars,
                   errVars>>

\* fn rejects: the catch block
FnRejects ==
    /\ pc = "awaiting"
    /\ \E e \in Errors :
          /\ fnLog' = Append(fnLog, e)
          /\ IF retries(variant, attempt, options, e)
             THEN /\ onRetryLog' =
                        Append(onRetryLog, <<e, onRetryAttempt(variant, attempt)>>)
                  /\ \E k \in 0 .. RandomSteps - 1 :
                        delays' = Append(delays,
                                         backoff(variant, attempt, options, k))
                  /\ pc' = "sleeping"
                  /\ trace' = trace \o catchEvents
                  /\ lastError' = recordError(lastError, e)
                  /\ UNCHANGED <<attempt, invoked, outcome>>
             ELSE /\ UNCHANGED <<onRetryLog, delays>>
                  /\ IF variant = "deploy"
                     THEN LoopHead(attempt + 1, recordError(lastError, e),
                                   Append(trace, "fail"))
                     ELSE /\ pc' = "thrown"
                          /\ trace' = trace \o <<"fail", "throw">>
                          /\ outcome' = [kind |-> "thrown", value |-> e]
                          /\ lastError' = recordError(lastError, e)
                          /\ UNCHANGED <<attempt, invoked>>
    /\ UNCHANGED <<variant, options>>
    /\ UNCHANGED <<breakerVars, poolVars, timeoutVars, rpVars,
                   errVars>>

\* the delay elapses: attempt++ and the loop header
SleepElapses ==
    /\ pc = "sleeping"
    /\ LoopHead(attempt + 1, lastError, Append(trace, "wake"))
    /\ UNCHANGED <<variant, options, fnLog, onRetryLog, delays>>
    /\ UNCHANGED <<breakerVars, poolVars, timeoutVars, rpVars,
                   errVars>>

RetryCallInit ==
    /\ variant \in Variants
    /\ options \in [limit : 0 .. MaxLimit,
                    retryable : RetryableSets,
                    policy : Policies]
    /\ RetryIdle

RetryNext ==
    \/ RetryCall
    \/ FnResolves
    \/ FnRejects
    \/ SleepElapses

(***************************************************************************)
(* Concurrency pools: mapWithConcurrency of utils/delay.ts and concurrent  *)
(* of the deploy script.  Item i stands for items[i - 1] (tasks[i - 1]);   *)
(* the value fn yields for item i is i, so that results can be compared    *)
(* with the input order.                                                   *)
(***************************************************************************)
\* the largest number of items and the largest concurrency of a call
MaxItems == 5
MaxConcurrency == 3

PoolFns == {"mapWithConcurrency", "concurrent"}

\* the running fn calls: started and not yet settled
InFlight == {i \in 1 .. nItems : status[i] = "running"}

\* the queue read from its end
queueAtFromEnd(k, n) == n - k
\* queue[currentIndex]: the item taken when k have been taken
queueAt(k, n) == k + 1

\* executeNext() of mapWithConcurrency, run to its first await that
\* suspends; sh is the state the executors share
RECURSIVE executeNext(_, _, _)
executeNext(sh, c, n) ==
    IF sh.currentIndex >= n
    THEN [sh |-> sh, pc |-> "done", race |-> {}]
    ELSE LET index == queueAt(sh.currentIndex, n)
             taken == [currentIndex |-> sh.currentIndex + 1,
                       executing |-> sh.executing \cup {index},
                       status |-> [sh.status EXCEPT ![index] = "scheduled"],
                       microtasks |-> Append(sh.microtasks, index),
                       started |-> sh.started]
         IN  IF Cardinality(taken.executing) >= c
             THEN [sh |-> taken, pc |-> "racing", race |-> taken.executing]
             ELSE executeNext(taken, c, n)

\* the number of initial executors: Math.min(concurrency, queue.length) as
\* the length Array.from gives
initialExecutors(c, n) == Max(0, Min(c, n))

\* the initial executors started one after the other; execs are the ones
\* started so far
RECURSIVE startExecutors(_, _, _, _, _)
startExecutors(k, sh, execs, c, n) ==
    IF k = 0
    THEN [sh |-> sh, execs |-> execs]
    ELSE LET r == executeNext(sh, c, n)
         IN  startExecutors(k - 1, r.sh,
                            Append(execs, [pc |-> r.pc, race |-> r.race]),
                            c, n)

\* the test before the loop's await: executing.size > concurrency
atCapacityLate(size, c) == size > c
\* the test before the loop's await: executing.size >= concurrency
atCapacity(size, c) == size >= c

\* the for loop of concurrent(), run to its first await that suspends, and
\* after the loop the await Promise.all(executing)
RECURSIVE concurrentLoop(_, _, _)
concurrentLoop(sh, c, n) ==
    IF sh.currentIndex >= n
    THEN IF sh.executing = {}
         THEN [sh |-> sh, pc |-> "done", race |-> {}]
         ELSE [sh |-> sh, pc |-> "joining", race |-> sh.executing]
    ELSE LET index == sh.currentIndex + 1
             added == [currentIndex |-> sh.currentIndex + 1,
                       executing |-> sh.executing \cup {index},
                       status |-> [sh.status EXCEPT ![index] = "running"],
                       microtasks |-> sh.microtasks,
                       started |-> Append(sh.started, index)]
         IN  IF atCapacity(Cardinality(added.executing), c)
             THEN [sh |-> added, pc |-> "racing",
                   race |-> added.executing]
             ELSE concurrentLoop(added, c, n)

\* what an awaiting loop sees when item i resolves: Promise.race resolves,
\* Promise.all goes on waiting for the rest
onResolved(e, i) ==
    CASE e.pc = "racing" /\ i \in e.race -> [e EXCEPT !.pc = "woken"]
      [] e.pc = "joining" /\ i \in e.race ->
            IF e.race = {i}
            THEN [pc |-> "done", race |-> {}]
            ELSE [e EXCEPT !.race = @ \ {i}]
      [] OTHER -> e

\* what an awaiting loop sees when item i rejects: both Promise.race and
\* Promise.all reject
onRejected(e, i) ==
    IF e.pc \in {"racing", "joining"} /\ i \in e.race
    THEN [e EXCEPT !.pc = "failed"]
    ELSE e

\* the promise the call returned: rejected by the first loop that throws,
\* resolved once every loop has returned.  The reactions that settle it
\* are queued behind the .then(() => fn(item, index)) of every item taken
\* so far, so those calls of fn have begun when it settles.
settled(before, execs, st) ==
    IF before # "pending" THEN before
    ELSE IF \E i \in DOMAIN st : st[i] = "scheduled" THEN "pending"
    ELSE IF \E j \in 1 .. Len(execs) : execs[j].pc = "failed" THEN "rejected"
    ELSE IF \A j \in 1 .. Len(execs) : execs[j].pc = "done" THEN "resolved"
    ELSE "pending"

\* results[index] = result, and results.push(result) of concurrent
stored(fnName, res, i) ==
    IF fnName = "mapWithConcurrency"
    THEN [res EXCEPT ![i] = i]
    ELSE Append(res, i)

Shared == [currentIndex |-> currentIndex, executing |-> executing,
           status |-> status, microtasks |-> microtasks,
           started |-> started]

PoolInit ==
    /\ poolFn \in PoolFns
    /\ concurrency \in -1 .. MaxConcurrency
    /\ nItems \in 0 .. MaxItems
    /\ status = [i \in 1 .. nItems |-> "queued"]
    /\ executing = {}
    /\ currentIndex = 0
    /\ results = <<>>
    /\ executors = <<>>
    /\ poolOutcome = "idle"
    /\ microtasks = <<>>
    /\ started = <<>>

\* the call, up to the first await that suspends
PoolCall ==
    /\ poolOutcome = "idle"
    /\ LET r == IF poolFn = "mapWithConcurrency"
                THEN startExecutors(initialExecutors(concurrency, nItems),
                                    Shared, <<>>, concurrency, nItems)
                ELSE LET l == concurrentLoop(Shared, concurrency, nItems)
                     IN  [sh |-> l.sh,
                          execs |-> <<[pc |-> l.pc, race |-> l.race]>>]
       IN  /\ currentIndex' = r.sh.currentIndex
           /\ executing' = r.sh.executing
           /\ status' = r.sh.status
           /\ microtasks' = r.sh.microtasks
           /\ started' = r.sh.started
           /\ executors' = r.execs
           /\ poolOutcome' = settled("pending", r.execs, r.sh.status)
    /\ results' = IF poolFn = "mapWithConcurrency"
                  THEN [i \in 1 .. nItems |-> 0]
                  ELSE <<>>
    /\ UNCHANGED <<poolFn, concurrency, nItems>>
    /\ UNCHANGED <<breakerVars, retryVars, timeoutVars, rpVars,
                   errVars>>

\* mapWithConcurrency: the .then(() => fn(item, index)) of a taken item
\* runs; the reactions run in the order they were queued
FnStart ==
    /\ microtasks # <<>>
    /\ status' = [status EXCEPT ![Head(microtasks)] = "running"]
    /\ microtasks' = Tail(microtasks)
    /\ started' = Append(started, Head(microtasks))
    /\ poolOutcome' = settled(poolOutcome, executors, status')
    /\ UNCHANGED <<poolFn, concurrency, nItems, executing, currentIndex,
                   results, executors>>
    /\ UNCHANGED <<breakerVars, retryVars, timeoutVars, rpVars,
                   errVars>>

\* a running fn call resolves: its result is stored, its promise leaves the
\* executing set and settles
FnResolve ==
    /\ \E i \in InFlight :
          /\ status' = [status EXCEPT ![i] = "resolved"]
          /\ results' = stored(poolFn, results, i)
          /\ executing' = executing \ {i}
          /\ executors' = [j \in 1 .. Len(executors) |->
                              onResolved(executors[j], i)]
    /\ poolOutcome' = settled(poolOutcome, executors', status')
    /\ UNCHANGED <<poolFn, concurrency, nItems, currentIndex, microtasks,
                   started>>
    /\ UNCHANGED <<breakerVars, retryVars, timeoutVars, rpVars,
                   errVars>>

\* a running fn call rejects: its promise leaves the executing set and
\* rejects
FnReject ==
    /\ \E i \in InFlight :
          /\ status' = [status EXCEPT ![i] = "rejected"]
          /\ executing' = executing \ {i}
          /\ executors' = [j \in 1 .. Len(executors) |->
                              onRejected(executors[j], i)]
    /\ poolOutcome' = settled(poolOutcome, executors', status')
    /\ UNCHANGED <<poolFn, concurrency, nItems, currentIndex, results,
                   microtasks, started>>
    /\ UNCHANGED <<breakerVars, retryVars, timeoutVars, rpVars,
                   errVars>>

\* a loop whose Promise.race resolved goes on
LoopResume ==
    /\ \E j \in 1 .. Len(executors) :
          /\ executors[j].pc = "woken"
          /\ LET r == IF poolFn = "mapWithConcurrency"
                      THEN executeNext(Shared, concurrency, nItems)
                      ELSE concurrentLoop(Shared, concurrency, nItems)
             IN  /\ currentIndex' = r.sh.currentIndex
                 /\ executing' = r.sh.executing
                 /\ status' = r.sh.status
                 /\ microtasks' = r.sh.microtasks
                 /\ started' = r.sh.started
                 /\ executors' = [executors EXCEPT
                                     ![j] = [pc |-> r.pc, race |-> r.race]]
    /\ poolOutcome' = settled(poolOutcome, executors', status')
    /\ UNCHANGED <<poolFn, concurrency, nItems, results>>
    /\ UNCHANGED <<breakerVars, retryVars, timeoutVars, rpVars,
                   errVars>>

PoolNext ==
    \/ PoolCall
    \/ FnStart
    \/ FnResolve
    \/ FnReject
    \/ LoopResume

\* no pool call runs
NoPool ==
    /\ poolFn = "mapWithConcurrency"
    /\ concurrency = 1
    /\ nItems = 0
    /\ status = <<>>
    /\ executing = {}
    /\ currentIndex = 0
    /\ results = <<>>
    /\ executors = <<>>
    /\ poolOutcome = "idle"
    /\ microtasks = <<>>
    /\ started = <<>>

(***************************************************************************)
(* Deadline races: withTimeout of utils/delay.ts and raceWithTimeout of    *)
(* the deploy script.  Time is counted in steps of the clock; what the     *)
(* event loop runs at one instant, it runs in an order the two functions   *)
(* do not control.                                                         *)
(***************************************************************************)
\* the largest timeout and the last instant of the clock
MaxMs == 3
MaxClock == 5

TimeoutFns == {"withTimeout", "raceWithTimeout"}

Undecided == [kind |-> "pending", result |-> "none", at |-> -1]

\* resolve(result), reject(err), reject(timeoutError): only the first call
\* settles the returned promise
settle(current, kind, result, at) ==
    IF current.kind # "pending"
    THEN current
    ELSE [kind |-> kind, result |-> result, at |-> at]

\* clearTimeout(timer) of withTimeout; raceWithTimeout keeps its timer
clearTimeout(fnName, t) ==
    IF fnName = "withTimeout" /\ t = "armed" THEN "cleared" ELSE t

\* the operation's promise as the call finds it, pending or settled
TimeoutInit ==
    /\ timeoutFn \in TimeoutFns
    /\ ms \in 0 .. MaxMs
    /\ clock = 0
    /\ \/ opState = "pending" /\ opResult = "none" /\ opSettledAt = -1
       \/ opState = "fulfilled" /\ opResult \in Values /\ opSettledAt = 0
       \/ opState = "rejected" /\ opResult \in Errors /\ opSettledAt = 0
    /\ timer = "none"
    /\ raceOutcome = Undecided

\* the call: the timer is set; the reactions of an operation that has
\* settled already run as microtasks, before any timer
TimeoutCall ==
    /\ timer = "none"
    /\ IF opState = "pending"
       THEN timer' = "armed" /\ UNCHANGED raceOutcome
       ELSE /\ timer' = clearTimeout(timeoutFn, "armed")
            /\ raceOutcome' = settle(raceOutcome, opState, opResult, clock)
    /\ UNCHANGED <<timeoutFn, ms, clock, opState, opResult, opSettledAt>>
    /\ UNCHANGED <<breakerVars, retryVars, poolVars, rpVars,
                   errVars>>

\* time passes; a timer that is due fires before it does
ClockTick ==
    /\ timer # "none"
    /\ clock < MaxClock
    /\ ~(timer = "armed" /\ clock >= ms)
    /\ clock' = clock + 1
    /\ UNCHANGED <<timeoutFn, ms, opState, opResult, opSettledAt, timer,
                   raceOutcome>>
    /\ UNCHANGED <<breakerVars, retryVars, poolVars, rpVars,
                   errVars>>

\* the operation resolves
OpResolves ==
    /\ timer # "none"
    /\ opState = "pending"
    /\ \E v \in Values :
          /\ opResult' = v
          /\ raceOutcome' = settle(raceOutcome, "fulfilled", v, clock)
    /\ opState' = "fulfilled"
    /\ opSettledAt' = clock
    /\ timer' = clearTimeout(timeoutFn, timer)
    /\ UNCHANGED <<timeoutFn, ms, clock>>
    /\ UNCHANGED <<breakerVars, retryVars, poolVars, rpVars,
                   errVars>>

\* the operation rejects
OpRejects ==
    /\ timer # "none"
    /\ opState = "pending"
    /\ \E e \in Errors :
          /\ opResult' = e
          /\ raceOutcome' = settle(raceOutcome, "rejected", e, clock)
    /\ opState' = "rejected"
    /\ opSettledAt' = clock
    /\ timer' = clearTimeout(timeoutFn, timer)
    /\ UNCHANGED <<timeoutFn, ms, clock>>
    /\ UNCHANGED <<breakerVars, retryVars, poolVars, rpVars,
                   errVars>>

\* the timer's callback runs
TimerFires ==
    /\ timer = "armed"
    /\ clock >= ms
    /\ timer' = "fired"
    /\ raceOutcome' = settle(raceOutcome, "timeout", "timeoutError", clock)
    /\ UNCHANGED <<timeoutFn, ms, clock, opState, opResult, opSettledAt>>
    /\ UNCHANGED <<breakerVars, retryVars, poolVars, rpVars,
                   errVars>>

TimeoutNext ==
    \/ TimeoutCall
    \/ ClockTick
    \/ OpResolves
    \/ OpRejects
    \/ TimerFires

\* no deadline race runs
NoTimeout ==
    /\ timeoutFn = "withTimeout"
    /\ ms = 0
    /\ clock = 0
    /\ opState = "pending"
    /\ opResult = "none"
    /\ opSettledAt = -1
    /\ timer = "none"
    /\ raceOutcome = Undecided

(***************************************************************************)
(* Pooled retries: retryPool of utils/retry.ts.  Every task runs its own   *)
(* retry() call; the sleeps of the calls end in any order.                 *)
(***************************************************************************)
\* the largest number of tasks and the largest maxRetries of a pooled call
MaxPoolTasks == 3
MaxPoolRetries == 2

\* the tasks whose operation has been called and has not settled
TasksInFlight == {i \in 1 .. nTasks : tasks[i].pc = "calling"}

\* retry(task, options) up to its first await: the loop is entered and fn
\* is called, or the loop is skipped and lastError (undefined) is thrown
retryStarts(opts) ==
    IF retryTsLoops(0, opts)
    THEN [pc |-> "calling", attempt |-> 0, invoked |-> 1, final |-> "none"]
    ELSE [pc |-> "threw", attempt |-> 0, invoked |-> 0,
          final |-> "undefined"]

\* a slot of the results array that was never assigned
EmptySlot == [attempts |-> 0, success |-> FALSE, result |-> "empty",
              error |-> "empty"]

\* the result object: { attempts: 0, success: false }, then result and
\* success = true after retry() returned, or error after it threw
pooledResult(kind, x) ==
    IF kind = "returned"
    THEN [attempts |-> 0, success |-> TRUE, result |-> x,
          error |-> "undefined"]
    ELSE [attempts |-> 0, success |-> FALSE, result |-> "undefined",
          error |-> x]

\* the callback without its try / catch
wrapperRethrows(kind) == IF kind = "threw" THEN "rejected" ELSE "fulfilled"
\* the tasks.map callback: try { await retry(...) } catch { ... }, then
\* results[index] = result and the callback returns
wrapperSettles(kind) == "fulfilled"

\* await Promise.all(...); return results
allSettled(ws) ==
    IF \E i \in DOMAIN ws : ws[i] = "rejected" THEN "rejected"
    ELSE IF \A i \in DOMAIN ws : ws[i] = "fulfilled" THEN "resolved"
    ELSE "pending"

\* the callback of task i after its retry() call ended
TaskEnds(i, kind, x) ==
    /\ wrappers' = [wrappers EXCEPT ![i] = wrapperSettles(kind)]
    /\ rpResults' = IF wrappers'[i] = "fulfilled"
                    THEN [rpResults EXCEPT ![i] = pooledResult(kind, x)]
                    ELSE rpResults
    /\ rpOutcome' = IF rpOutcome = "pending"
                    THEN allSettled(wrappers')
                    ELSE rpOutcome

RetryPoolInit ==
    /\ rpOptions \in [limit : 0 .. MaxPoolRetries, retryable : RetryableSets]
    /\ nTasks \in 0 .. MaxPoolTasks
    /\ tasks = [i \in 1 .. nTasks |->
                  [pc |-> "idle", attempt |-> 0, invoked |-> 0,
                   final |-> "none"]]
    /\ wrappers = [i \in 1 .. nTasks |-> "pending"]
    /\ rpResults = [i \in 1 .. nTasks |-> EmptySlot]
    /\ rpOutcome = "idle"

\* the call: tasks.map runs every callback up to its first await
RetryPoolCall ==
    /\ rpOutcome = "idle"
    /\ tasks' = [i \in 1 .. nTasks |-> retryStarts(rpOptions)]
    /\ wrappers' = [i \in 1 .. nTasks |->
                      IF tasks'[i].pc = "threw"
                      THEN wrapperSettles("threw")
                      ELSE "pending"]
    /\ rpResults' = [i \in 1 .. nTasks |->
                       IF wrappers'[i] = "fulfilled"
                       THEN pooledResult("threw", tasks'[i].final)
                       ELSE EmptySlot]
    /\ rpOutcome' = allSettled(wrappers')
    /\ UNCHANGED <<rpOptions, nTasks>>
    /\ UNCHANGED <<breakerVars, retryVars, poolVars, timeoutVars, errVars>>

\* the operation of a task resolves: retry() returns its value
TaskResolves ==
    /\ \E i \in TasksInFlight, v \in Values :
          /\ tasks' = [tasks EXCEPT ![i].pc = "returned", ![i].final = v]
          /\ TaskEnds(i, "returned", v)
    /\ UNCHANGED <<rpOptions, nTasks>>
    /\ UNCHANGED <<breakerVars, retryVars, poolVars, timeoutVars, errVars>>

\* the operation of a task rejects: retry() throws the error, or calls
\* onRetry and sleeps
TaskRejects ==
    /\ \E i \in TasksInFlight, e \in Errors :
          IF retryTsGivesUp(tasks[i].attempt, rpOptions, e)
          THEN /\ tasks' = [tasks EXCEPT ![i].pc = "threw", ![i].final = e]
               /\ TaskEnds(i, "threw", e)
          ELSE /\ tasks' = [tasks EXCEPT ![i].pc = "sleeping"]
               /\ UNCHANGED <<wrappers, rpResults, rpOutcome>>
    /\ UNCHANGED <<rpOptions, nTasks>>
    /\ UNCHANGED <<breakerVars, retryVars, poolVars, timeoutVars, errVars>>

\* the sleep of a task ends: the next iteration calls the operation again
TaskWakes ==
    /\ \E i \in 1 .. nTasks :
          /\ tasks[i].pc = "sleeping"
          /\ retryTsLoops(tasks[i].attempt + 1, rpOptions)
          /\ tasks' = [tasks EXCEPT ![i].pc = "calling",
                                    ![i].attempt = @ + 1,
                                    ![i].invoked = @ + 1]
    /\ UNCHANGED <<rpOptions, nTasks, wrappers, rpResults, rpOutcome>>
    /\ UNCHANGED <<breakerVars, retryVars, poolVars, timeoutVars, errVars>>

RetryPoolNext ==
    \/ RetryPoolCall
    \/ TaskResolves
    \/ TaskRejects
    \/ TaskWakes

\* no pooled call runs
NoRetryPool ==
    /\ rpOptions = [limit |-> 3, retryable |-> Errors]
    /\ nTasks = 0
    /\ tasks = <<>>
    /\ wrappers = <<>>
    /\ rpResults = <<>>
    /\ rpOutcome = "idle"

(***************************************************************************)
(* The errors a caller catches from execute() of the breaker and from      *)
(* withTimeout.  An error is what the caller can inspect of it: the name   *)
(* of its constructor and its message.                                     *)
(***************************************************************************)
\* how many failures a caller is followed through
MaxCaught == 3

\* the timeouts withTimeout is called with
TimeoutsMs == {100, 5000}

\* the message of withTimeout's default error
timeoutMessage(t) ==
    IF t = 100 THEN "Operation timed out after 100ms"
    ELSE "Operation timed out after 5000ms"

\* execute(): throw new Error('Circuit breaker is open')
circuitOpenError == [name |-> "Error", message |-> "Circuit breaker is open"]

\* withTimeout: error ?? new Error(`Operation timed out after ${ms}ms`)
timeoutError(error, t) ==
    IF error # [name |-> "undefined", message |-> "undefined"]
    THEN error
    ELSE [name |-> "Error", message |-> timeoutMessage(t)]

\* what a wrapped operation may throw: any value; the ones followed here
OperationErrors ==
    { [name |-> "TypeError", message |-> "Failed to fetch"],
      [name |-> "Error", message |-> "Request failed"],
      [name |-> "Error", message |-> "Circuit breaker is open"],
      [name |-> "Error", message |-> "Operation timed out after 100ms"] }

\* the breaker is open: execute() throws without invoking the operation
CatchCircuitOpen ==
    /\ Len(caught) < MaxCaught
    /\ caught' = Append(caught, [from |-> "circuit-open",
                                 error |-> circuitOpenError])
    /\ UNCHANGED <<breakerVars, retryVars, poolVars, timeoutVars, rpVars>>

\* the timer of withTimeout wins, no error argument given
CatchTimeout ==
    /\ Len(caught) < MaxCaught
    /\ \E t \in TimeoutsMs :
          caught' = Append(caught,
                           [from |-> "timeout",
                            error |-> timeoutError(
                                [name |-> "undefined",
                                 message |-> "undefined"], t)])
    /\ UNCHANGED <<breakerVars, retryVars, poolVars, timeoutVars, rpVars>>

\* the timer of withTimeout wins: the error the caller passed
CatchCustomTimeout ==
    /\ Len(caught) < MaxCaught
    /\ \E t \in TimeoutsMs, e \in OperationErrors :
          caught' = Append(caught, [from |-> "timeout",
                                    error |-> timeoutError(e, t)])
    /\ UNCHANGED <<breakerVars, retryVars, poolVars, timeoutVars, rpVars>>

\* the operation fails: execute() rethrows its error, withTimeout rejects
\* with it
CatchOperationError ==
    /\ Len(caught) < MaxCaught
    /\ \E e \in OperationErrors :
          caught' = Append(caught, [from |-> "operation", error |-> e])
    /\ UNCHANGED <<breakerVars, retryVars, poolVars, timeoutVars, rpVars>>

ErrorsNext ==
    \/ CatchCircuitOpen
    \/ CatchTimeout
    \/ CatchCustomTimeout
    \/ CatchOperationError

\* nothing caught
NoErrors == caught = <<>>

vars == <<breakerVars, retryVars, poolVars, timeoutVars, rpVars, errVars>>

\* no retry call runs beside the breaker
NoRetry ==
    /\ variant = "retry.ts"
    /\ options = [limit |-> 3, retryable |-> Errors,
                  policy |-> CHOOSE p \in Policies : p.initialDelay = 1000]
    /\ RetryIdle

\* no breaker is used beside the retry call
NoBreaker ==
    /\ config = [failureThreshold |-> 5, halfOpenTime |-> 30000,
                 successThreshold |-> 2]
    /\ stateData = InitialStateData
    /\ now = 0
    /\ ticks = 0
    /\ pending = 0
    /\ invocations = 0
    /\ event = "created"
    /\ hist = <<>>
    /\ overlapped = FALSE
    /\ wasReset = FALSE

Init == BreakerInit /\ NoRetry /\ NoPool /\ NoTimeout /\ NoRetryPool
    /\ NoErrors

InitRetry == RetryCallInit /\ NoBreaker /\ NoPool /\ NoTimeout /\ NoRetryPool
    /\ NoErrors

InitPool == PoolInit /\ NoBreaker /\ NoRetry /\ NoTimeout /\ NoRetryPool
    /\ NoErrors

InitTimeout == TimeoutInit /\ NoBreaker /\ NoRetry /\ NoPool /\ NoRetryPool
    /\ NoErrors

InitRetryPool ==
    RetryPoolInit /\ NoBreaker /\ NoRetry /\ NoPool /\ NoTimeout /\ NoErrors

InitErrors ==
    NoErrors /\ NoBreaker /\ NoRetry /\ NoPool /\ NoTimeout /\ NoRetryPool

NextNoReset ==
    \/ Tick
    \/ GetState
    \/ Execute
    \/ ExecuteResolved
    \/ ExecuteRejected

Next ==
    \/ NextNoReset
    \/ Reset

\* the breaker with its whole interface
Spec == Init /\ [][Next]_vars

\* the breaker when no caller uses reset()
SpecNoReset == Init /\ [][NextNoReset]_vars

\* one retry call, of any of the three retry functions
SpecRetry == InitRetry /\ [][RetryNext]_vars

\* one call of a concurrency pool
SpecPool == InitPool /\ [][PoolNext]_vars

\* one call of withTimeout or raceWithTimeout
SpecTimeout == InitTimeout /\ [][TimeoutNext]_vars

\* one call of retryPool
SpecRetryPool == InitRetryPool /\ [][RetryPoolNext]_vars

\* a caller catching failures
SpecErrors == InitErrors /\ [][ErrorsNext]_vars

(***************************************************************************)
(* Properties of the circuit breaker.                                      *)
(***************************************************************************)
\* the step is an execute() call (up to its await)
IsExecute == event' \in {"rejected", "invoked"}
\* the step is an access: getState() or execute()
IsAccess == event' \in {"getState", "rejected", "invoked"}
\* less than halfOpenTime has passed since lastFailure
Cooling == now - stateData.lastFailure < config.halfOpenTime
\* every operation settled so far has failed
OnlyFailures == \A i \in 1 .. Len(hist) : hist[i] = "F"

\* C1: execute() called while the breaker is open and less than halfOpenTime
\* has passed since lastFailure is rejected, does not invoke fn and leaves
\* state, failures, successes and lastFailure as they were.
C1_OpenRejects ==
    [][ (IsExecute /\ stateData.state = "open" /\ Cooling)
        => /\ event' = "rejected"
           /\ invocations' = invocations
           /\ pending' = pending
           /\ stateData' = stateData ]_vars

C1_Witness ==
    /\ event = "rejected"
    /\ stateData.state = "open"
    /\ Cooling
    /\ invocations > 0

\* C2: from a fresh breaker, the state is closed after fewer than
\* failureThreshold failing calls, open right after the failureThreshold-th
\* failing call, and the next execute() made before halfOpenTime has passed
\* is rejected without invoking its operation.
C2_OpensAtThreshold ==
    /\ [] ( (~wasReset /\ OnlyFailures
             /\ Len(hist) < config.failureThreshold)
            => stateData.state = "closed" )
    /\ [][ /\ (event' = "failure" /\ ~wasReset' /\ OnlyFailures'
               /\ Len(hist') = config.failureThreshold)
              => stateData'.state = "open"
           /\ (IsExecute /\ ~wasReset /\ OnlyFailures
               /\ Len(hist) = config.failureThreshold /\ Cooling)
              => (event' = "rejected" /\ invocations' = invocations) ]_vars

C2_Witness ==
    /\ event = "rejected"
    /\ ~wasReset
    /\ ~overlapped
    /\ OnlyFailures
    /\ config.failureThreshold = 3
    /\ Len(hist) = 3
    /\ invocations = 3

\* C3: open turns half-open only on an access (getState() or execute()),
\* never by the passing of time: an access made less than halfOpenTime after
\* lastFailure leaves the state open, an access made at or after halfOpenTime
\* makes it half-open, and execute() in half-open invokes its operation.
C3_HalfOpenOnAccess ==
    [][ /\ (stateData.state = "open" /\ stateData'.state = "half-open")
           => (event' \in {"getState", "invoked"} /\ ~Cooling)
        /\ (event' = "tick") => (stateData' = stateData)
        /\ (IsAccess /\ stateData.state = "open" /\ Cooling)
           => stateData'.state = "open"
        /\ (IsAccess /\ stateData.state = "open" /\ ~Cooling)
           => (stateData'.state = "half-open" /\ event' # "rejected")
        /\ (IsExecute /\ stateData.state = "half-open")
           => (event' = "invoked" /\ invocations' = invocations + 1) ]_vars

C3_Witness ==
    /\ event = "getState"
    /\ stateData.state = "half-open"
    /\ now - stateData.lastFailure = config.halfOpenTime
    /\ ticks >= 2

\* C4: whenever the breaker goes from open to half-open, its success counter
\* is 0.
C4_HalfOpenStartsAtZero ==
    [][ (stateData.state = "open" /\ stateData'.state = "half-open")
        => stateData'.successes = 0 ]_vars

\* C5: in half-open, the successful call that brings successes to
\* successThreshold closes the breaker with failures and successes 0, and a
\* successful call that leaves successes below it keeps the breaker
\* half-open; with failureThreshold 2, halfOpenTime 1000 and successThreshold
\* 1, two failures and then one success after 1000 ms leave it closed.
C5_ClosesAtSuccessThreshold ==
    /\ [][ (event' = "success" /\ stateData.state = "half-open")
           => IF stateData.successes + 1 >= config.successThreshold
              THEN /\ stateData'.state = "closed"
                   /\ stateData'.failures = 0
                   /\ stateData'.successes = 0
              ELSE /\ stateData'.state = "half-open"
                   /\ stateData'.successes = stateData.successes + 1 ]_vars
    /\ [] ( ( /\ config = [failureThreshold |-> 2, halfOpenTime |-> 1000,
                           successThreshold |-> 1]
              /\ hist = <<"F", "F", "S">>
              /\ event = "success"
              /\ ~overlapped
              /\ ~wasReset )
            => stateData.state = "closed" )

C5_Witness ==
    /\ config = [failureThreshold |-> 2, halfOpenTime |-> 1000,
                 successThreshold |-> 1]
    /\ hist = <<"F", "F", "S">>
    /\ event = "success"
    /\ ~overlapped
    /\ ~wasReset
    /\ now = 1000
    /\ stateData.state = "closed"

\* C6: a failing call in half-open opens the breaker in the step that
\* records the failure and sets lastFailure to the time of the failure;
\* while open lastFailure never moves back, and half-open is reached again
\* only halfOpenTime after it.
C6_HalfOpenFailureReopens ==
    [][ /\ (event' = "failure" /\ stateData.state = "half-open")
           => (stateData'.state = "open" /\ stateData'.lastFailure = now')
        /\ (stateData.state = "open" /\ stateData'.state = "open")
           => stateData'.lastFailure >= stateData.lastFailure
        /\ (stateData.state = "open" /\ stateData'.state = "half-open")
           => now' - stateData.lastFailure >= config.halfOpenTime ]_vars

C6_Witness ==
    /\ event = "failure"
    /\ stateData.state = "open"
    /\ ~overlapped
    /\ ~wasReset
    /\ stateData.failures > config.failureThreshold
    /\ stateData.lastFailure = now
    /\ now > 0

\* C7: with reset() not called from outside, every change of state is
\* closed -> open with failures >= failureThreshold, open -> half-open with
\* now - lastFailure >= halfOpenTime, half-open -> closed with successes >=
\* successThreshold, or half-open -> open on a failure.
C7_OnlyTableTransitions ==
    [][ (stateData'.state # stateData.state)
        => \/ /\ stateData.state = "closed"
              /\ stateData'.state = "open"
              /\ stateData'.failures >= config.failureThreshold
           \/ /\ stateData.state = "open"
              /\ stateData'.state = "half-open"
              /\ now - stateData.lastFailure >= config.halfOpenTime
           \/ /\ stateData.state = "half-open"
              /\ stateData'.state = "closed"
              /\ event' = "success"
              /\ stateData.successes + 1 >= config.successThreshold
           \/ /\ stateData.state = "half-open"
              /\ stateData'.state = "open"
              /\ event' = "failure" ]_vars

C7_Witness ==
    /\ stateData.state = "closed"
    /\ overlapped
    /\ event = "success"
    /\ \E i \in 1 .. Len(hist) : hist[i] = "F"
    /\ stateData.failures = 0

(***************************************************************************)
(* Properties of the retry loops.                                          *)
(***************************************************************************)
\* every invocation so far failed with an error isRetryable accepts
AlwaysFailsRetryably ==
    \A i \in 1 .. Len(fnLog) : fnLog[i] \in options.retryable

\* C8 as stated: retry() of utils/retry.ts with limit N >= 1 invokes the
\* operation at most N times; an operation that always fails retryably is
\* invoked exactly N times and onRetry is called N - 1 times.
C8_AtMostLimitInvocations ==
    (variant = "retry.ts" /\ options.limit >= 1)
    => /\ invoked <= options.limit
       /\ (pc = "thrown" /\ AlwaysFailsRetryably)
          => (invoked = options.limit
              /\ Len(onRetryLog) = options.limit - 1)

\* C8 amended: retry() of utils/retry.ts with maxRetries = N >= 1 invokes the
\* operation at most N + 1 times; an operation that always fails retryably
\* is invoked exactly N + 1 times and onRetry is called N times before the
\* call throws.
C8_AtMostLimitPlusOne ==
    (variant = "retry.ts" /\ options.limit >= 1)
    => /\ invoked <= options.limit + 1
       /\ (pc = "thrown" /\ AlwaysFailsRetryably)
          => (invoked = options.limit + 1
              /\ Len(onRetryLog) = options.limit)

C8_Witness ==
    /\ variant = "retry.ts"
    /\ options.limit = 2
    /\ pc = "thrown"
    /\ AlwaysFailsRetryably
    /\ invoked = 3
    /\ Len(onRetryLog) = 2

\* C9: in utils/retry.ts and utils/delay.ts, when the first invocation fails
\* with an error isRetryable rejects, the operation is invoked exactly once,
\* onRetry is not called, no delay is waited and the call throws.
C9_NonRetryableOnce ==
    ( /\ variant \in {"retry.ts", "delay.ts"}
      /\ Len(fnLog) >= 1
      /\ fnLog[1] \in Errors \ options.retryable )
    => /\ invoked = 1
       /\ Len(fnLog) = 1
       /\ onRetryLog = <<>>
       /\ delays = <<>>
       /\ pc = "thrown"
       /\ outcome.kind = "thrown"

C9_Witness ==
    /\ variant = "delay.ts"
    /\ options.limit = 3
    /\ fnLog = <<"E3">>
    /\ "E3" \notin options.retryable
    /\ pc = "thrown"

\* C10: when a retry call with limit >= 1 throws, it throws the error of the
\* last invocation of the operation, in all three retry functions.
C10_ThrowsLastError ==
    (pc = "thrown" /\ options.limit >= 1)
    => /\ Len(fnLog) >= 1
       /\ outcome.kind = "thrown"
       /\ outcome.value \in Errors
       /\ outcome.value = fnLog[Len(fnLog)]

C10_Witness ==
    /\ variant = "deploy"
    /\ pc = "thrown"
    /\ options.limit = 3
    /\ Len(fnLog) = 3
    /\ fnLog[1] # fnLog[3]
    /\ outcome.value = fnLog[3]

\* C11: every delay calculateDelay yields is a non-negative integer that is
\* at most maxDelay.
C11_DelayWithinMax ==
    (variant = "retry.ts")
    => \A i \in 1 .. Len(delays) :
          /\ delays[i] \in Nat
          /\ delays[i] <= options.policy.maxDelay

\* min(initialDelay * backoffMultiplier ^ k, maxDelay) as a rational
BaseDelay(k, p) ==
    LET n == p.initialDelay * Pow(p.backoffMultiplier[1], k)
        d == Pow(p.backoffMultiplier[2], k)
    IN  IF n <= p.maxDelay * d THEN <<n, d>> ELSE <<p.maxDelay, 1>>

\* the call failed twice and then succeeded, under initialDelay 100,
\* backoffMultiplier 2 and jitter 0
FailsTwiceThenSucceeds ==
    /\ variant = "retry.ts"
    /\ options.policy.initialDelay = 100
    /\ options.policy.backoffMultiplier = <<2, 1>>
    /\ options.policy.jitter[1] = 0
    /\ pc = "returned"
    /\ Len(fnLog) = 3
    /\ fnLog[1] \in Errors
    /\ fnLog[2] \in Errors

\* C12 as stated: with jitter 0 the delay after the k-th failed attempt is
\* exactly min(initialDelay * backoffMultiplier ^ k, maxDelay); failing twice
\* and then succeeding under 100 / 2 waits 100 and then 200.
C12_ExactBackoff ==
    /\ (variant = "retry.ts" /\ options.policy.jitter[1] = 0)
       => \A i \in 1 .. Len(delays) :
             delays[i] * BaseDelay(i - 1, options.policy)[2]
                = BaseDelay(i - 1, options.policy)[1]
    /\ FailsTwiceThenSucceeds
       => (delays = <<100, 200>> /\ outcome.value = fnLog[3])

\* C12 amended: with jitter 0 the delay after the k-th failed attempt is
\* min(initialDelay * backoffMultiplier ^ k, maxDelay) rounded to the nearest
\* integer, halves up; failing twice and then succeeding under 100 / 2 waits
\* 100 and then 200.
C12_RoundedBackoff ==
    /\ (variant = "retry.ts" /\ options.policy.jitter[1] = 0)
       => \A i \in 1 .. Len(delays) :
             LET b == BaseDelay(i - 1, options.policy)
             IN  /\ 2 * delays[i] * b[2] <= 2 * b[1] + b[2]
                 /\ 2 * delays[i] * b[2] > 2 * b[1] - b[2]
    /\ FailsTwiceThenSucceeds
       => (delays = <<100, 200>> /\ outcome.value = fnLog[3])

C12_Witness ==
    /\ FailsTwiceThenSucceeds
    /\ options.limit = 2
    /\ delays = <<100, 200>>
    /\ outcome = [kind |-> "returned", value |-> fnLog[3]]

\* C13: within one retry call an invocation other than the first starts only
\* after the one before it has failed, onRetry has been called and the delay
\* after that onRetry has elapsed; no two invocations overlap, none starts
\* during a delay, and onRetry gets the attempt numbers 1, 2, 3, ... with the
\* error of the invocation that just failed, each before its delay.
C13_StrictSequence ==
    /\ invoked - Len(fnLog) \in {0, 1}
    /\ (pc = "sleeping") => (invoked = Len(fnLog))
    /\ (invoked > Len(fnLog)) => (pc = "awaiting")
    /\ \A p \in 2 .. Len(trace) :
          (trace[p] = "invoke")
          => /\ p >= 5
             /\ trace[p - 1] = "wake"
             /\ trace[p - 2] = "sleep"
             /\ trace[p - 3] = "onRetry"
             /\ trace[p - 4] = "fail"
    /\ \A p \in 1 .. Len(trace) :
          (trace[p] = "onRetry")
          => (p > 1 /\ trace[p - 1] = "fail"
              /\ p < Len(trace) /\ trace[p + 1] = "sleep")
    /\ \A i \in 1 .. Len(onRetryLog) :
          (i <= Len(fnLog) /\ onRetryLog[i] = <<fnLog[i], i>>)

C13_Witness ==
    /\ variant = "retry.ts"
    /\ pc = "awaiting"
    /\ invoked = 4
    /\ Len(onRetryLog) = 3
    /\ Len(delays) = 3

\* C14: when an invocation succeeds the call returns its value at once: the
\* success is the last invocation, and no onRetry call and no delay follow it.
C14_ReturnsAtOnce ==
    \A i \in 1 .. Len(fnLog) :
       (fnLog[i] \in Values)
       => /\ i = Len(fnLog)
          /\ invoked = i
          /\ pc = "returned"
          /\ outcome = [kind |-> "returned", value |-> fnLog[i]]
          /\ Len(onRetryLog) = i - 1
          /\ Len(delays) = i - 1
          /\ trace[Len(trace)] = "return"
          /\ trace[Len(trace) - 1] = "ok"

C14_Witness ==
    /\ variant = "deploy"
    /\ pc = "returned"
    /\ Len(fnLog) = 3
    /\ fnLog[3] \in Values
    /\ outcome.value = fnLog[3]

\* C15: mapWithConcurrency with concurrency >= 1 never has more than
\* `concurrency` calls of fn started and not yet settled at the same time
C15_MapBounded ==
    (poolFn = "mapWithConcurrency" /\ concurrency >= 1)
        => Cardinality(InFlight) <= concurrency

\* C16: concurrent with concurrency >= 1 never has more than `concurrency`
\* tasks started and not yet settled at the same time
C16_ConcurrentBounded ==
    (poolFn = "concurrent" /\ concurrency >= 1)
        => Cardinality(InFlight) <= concurrency

\* concurrent runs 5 tasks 2 at a time: the last two run, earlier ones
\* have settled
C16_Witness ==
    /\ poolFn = "concurrent"
    /\ concurrency = 2
    /\ nItems = 5
    /\ InFlight = {4, 5}
    /\ status[2] = "resolved"
    /\ poolOutcome = "pending"

\* C17: when the promise mapWithConcurrency returned resolves (no fn call
\* failing, concurrency >= 1), every fn call has settled and results[i] is
\* the value of fn(items[i], i) for every i
C17_MapComplete ==
    (/\ poolFn = "mapWithConcurrency"
     /\ concurrency >= 1
     /\ poolOutcome = "resolved"
     /\ \A i \in 1 .. nItems : status[i] # "rejected")
        => \A i \in 1 .. nItems : status[i] = "resolved" /\ results[i] = i

\* C18: concurrent returns its results in input order: results[i] is the
\* value of tasks[i] for every i
C18_InputOrder ==
    (poolFn = "concurrent" /\ poolOutcome = "resolved")
        => results = [i \in 1 .. nItems |-> i]

\* C19: a pool called with a limit smaller than 1 fails and starts none of
\* the tasks
C19_RejectsBadLimit ==
    (concurrency < 1 /\ poolOutcome # "idle")
        => poolOutcome = "rejected" /\ currentIndex = 0

\* what the operation settled with
OpOutcome == [kind |-> opState, result |-> opResult, at |-> opSettledAt]

\* C20: the returned promise settles with whichever happens first: the
\* operation's own value or error if it settles before the timer elapses,
\* the timeout error at time ms if the timer elapses first, the operation's
\* value if it resolves at the instant the timer elapses; and no later
\* event changes the outcome
C20_FirstEventWins ==
    /\ [](timer # "none" =>
            /\ (opSettledAt # -1 /\ opSettledAt < ms)
                   => raceOutcome = OpOutcome
            /\ (opSettledAt > ms \/ (opSettledAt = -1 /\ timer = "fired"))
                   => raceOutcome = [kind |-> "timeout",
                                     result |-> "timeoutError", at |-> ms]
            /\ (opSettledAt = ms /\ opState = "fulfilled")
                   => raceOutcome = OpOutcome)
    /\ [][raceOutcome.kind # "pending" => raceOutcome' = raceOutcome]_vars

\* C21: retryPool never rejects because of a task; when it resolves every
\* task has run to its own outcome and has its result at its own index:
\* success = false with the task's error if its retry() threw, success =
\* true with its value if it returned
C21_FailuresPerSlot ==
    /\ rpOutcome # "rejected"
    /\ rpOutcome = "resolved" =>
          \A i \in 1 .. nTasks :
             /\ tasks[i].pc \in {"returned", "threw"}
             /\ rpResults[i] # EmptySlot
             /\ tasks[i].pc = "threw" =>
                   /\ rpResults[i].success = FALSE
                   /\ rpResults[i].error = tasks[i].final
             /\ tasks[i].pc = "returned" =>
                   /\ rpResults[i].success = TRUE
                   /\ rpResults[i].result = tasks[i].final

\* a call of three tasks has resolved: the first exhausted its retries,
\* the second failed with an error that is not retryable, the third
\* succeeded on its second invocation
C21_Witness ==
    /\ rpOutcome = "resolved"
    /\ nTasks = 3
    /\ rpOptions = [limit |-> 2, retryable |-> {"E1", "E2"}]
    /\ tasks[1] = [pc |-> "threw", attempt |-> 2, invoked |-> 3,
                   final |-> "E1"]
    /\ tasks[2] = [pc |-> "threw", attempt |-> 0, invoked |-> 1,
                   final |-> "E3"]
    /\ tasks[3].pc = "returned" /\ tasks[3].invoked = 2
    /\ rpResults[1].error = "E1"
    /\ rpResults[2].error = "E3"
    /\ rpResults[3].success

\* C22: in every result retryPool returns, attempts is the number of
\* times the task's operation was invoked
C22_AttemptsCounted ==
    rpOutcome = "resolved" =>
        \A i \in 1 .. nTasks : rpResults[i].attempts = tasks[i].invoked

\* C23: retryPool keeps the number of operations in flight within a
\* concurrency limit: it does not have all of the tasks in flight when
\* there are more tasks than the limit (here: as many as a call can have)
C23_PoolBounded == Cardinality(TasksInFlight) < MaxPoolTasks

\* C24: retry() of utils/delay.ts and of the deploy script, with a limit
\* N >= 1 and an operation that always fails retryably, invoke the
\* operation exactly N times, call onRetry exactly N - 1 times with the
\* attempt numbers 1 .. N - 1, and then raise
C24_ExactlyLimitInvocations ==
    ( /\ variant \in {"delay.ts", "deploy"}
      /\ options.limit >= 1
      /\ AlwaysFailsRetryably )
    => /\ invoked <= options.limit
       /\ Len(fnLog) = options.limit => pc = "thrown"
       /\ pc = "thrown" =>
             /\ invoked = options.limit
             /\ Len(onRetryLog) = options.limit - 1
             /\ \A j \in 1 .. Len(onRetryLog) : onRetryLog[j][2] = j

\* the deploy script's retry with maxRetries = 3 has raised after three
\* failed invocations and two onRetry calls
C24_Witness ==
    /\ variant = "deploy"
    /\ options.limit = 3
    /\ pc = "thrown"
    /\ AlwaysFailsRetryably
    /\ Len(fnLog) = 3
    /\ invoked = 3
    /\ onRetryLog[2][2] = 2

\* C25: a caller can tell the failure kinds apart: the error of a
\* circuit-open rejection and the error of a timeout are of a kind no
\* error of a wrapped operation has, so an operation's failure never
\* carries the constructor name and message of one of them
C25_KindsDistinct ==
    \A i, j \in 1 .. Len(caught) :
        (caught[i].from = "operation" /\ caught[j].from # "operation")
            => caught[i].error # caught[j].error

\* C26: both pools start their tasks in input order: task j is never
\* started before task i < j, and the task started next is always the
\* unstarted one with the smallest index
C26_FifoAdmission == \A k \in 1 .. Len(started) : started[k] = k

\* mapWithConcurrency over 5 items with concurrency 2: item 1 has settled
\* and the last item has just been started
C26_Witness ==
    /\ poolFn = "mapWithConcurrency"
    /\ concurrency = 2
    /\ nItems = 5
    /\ status[1] = "resolved"
    /\ Len(started) = 5
    /\ status[5] = "running"

\* C27: while the breaker is open nothing changes failures, successes or
\* lastFailure: an operation admitted before the breaker opened and
\* settling after it opened leaves them alone, so the open period is
\* counted from the failure that opened the breaker
C27_OpenFrozen ==
    [][(stateData.state = "open" /\ stateData'.state = "open")
          => /\ stateData'.failures = stateData.failures
             /\ stateData'.successes = stateData.successes
             /\ stateData'.lastFailure = stateData.lastFailure]_vars

\* the settled calls so far contain n failures in a row
HasFailureRun(n) ==
    \E k \in 1 .. Len(hist) - n + 1 :
        \A m \in 0 .. n - 1 : hist[k + m] = "F"

\* C28: a success in closed state clears the failure counter: calls made
\* one after the other that never fail failureThreshold times in a row
\* never open the breaker
C28_OpensOnlyAfterRun ==
    (~overlapped /\ stateData.state # "closed")
        => HasFailureRun(config.failureThreshold)

\* C29: in half-open at most one trial is in flight: when execute() has
\* just admitted an operation in half-open and it has not settled, the
\* next call does not invoke its operation
C29_OneTrial ==
    [][(event = "invoked" /\ stateData.state = "half-open")
          => event' # "invoked"]_vars

\* C30: in every reachable state successes < successThreshold, and in
\* closed state failures < failureThreshold and successes = 0
C30_CounterBounds ==
    /\ stateData.successes < config.successThreshold
    /\ stateData.state = "closed" =>
          /\ stateData.failures < config.failureThreshold
          /\ stateData.successes = 0

\* after overlapping calls and a reset() the breaker is closed again, one
\* failure short of opening
C30_Witness ==
    /\ wasReset
    /\ overlapped
    /\ stateData.state = "closed"
    /\ config.failureThreshold = 3
    /\ stateData.failures = 2

=========================================================================
